---- MODULE Spec2Model ----
(***************************************************************************)
(* Parallel keyword search of task_01.py: run_analysis partitions a file   *)
(* list round-robin among num_workers workers (threads or processes), each *)
(* worker scans its chunk with process_files_chunk and puts its result on  *)
(* a queue, the engine joins all workers, drains the queue and merges the  *)
(* partial results with merge_results.                                     *)
(*                                                                         *)
(* Strings are sequences of characters, so that str.lower() and the        *)
(* substring test `in` are computed and not assumed.  File identifiers are *)
(* the positions of the files in the directory listing; their natural      *)
(* order is the order of the path strings "file_001.txt" < "file_002.txt". *)
(***************************************************************************)
EXTENDS Integers, Sequences, FiniteSets, TLC

(* ---- bounds of the model ---- *)
MaxFiles == 3        \* longest file_list
MaxWorkers == 2      \* largest num_workers
PipeCapacity == 6    \* units the inter-process pipe buffers before a write blocks

(* ---- the file system the search runs against ---- *)
\* Content[f] is the text of file f; file 4 exists in the list but cannot be opened.
Content == << <<"x", "A">>, <<"a", "B">>, <<"x">>, <<"a", "b">> >>
Files == DOMAIN Content
Readable == {1, 2, 3}

\* The keyword lists a caller may pass (original casing kept): none, one keyword,
\* two keywords, the same keyword twice, a keyword of two characters.
KeywordLists ==
    { <<>>,
      << <<"a">> >>,
      << <<"a">>, <<"B">> >>,
      << <<"a">>, <<"a">> >>,
      << <<"A", "b">> >>,
      << <<"B">>, <<"A", "b">> >> }

Modes == {"threading", "multiprocessing", "asyncio"}

Range(s) == {s[i] : i \in DOMAIN s}
Min(a, b) == IF a <= b THEN a ELSE b

SeqsUpTo(S, n) == UNION {[1..m -> S] : m \in 0..n}

(* ---- str.lower() and the `in` operator on str ---- *)
LowerChar(c) ==
    CASE c = "A" -> "a"
      [] c = "B" -> "b"
      [] c = "X" -> "x"
      [] OTHER -> c

LowerIdentity(s) == s

Lower(s) == [i \in 1..Len(s) |-> LowerChar(s[i])]

\* needle in hay
Contains(hay, needle) ==
    \E off \in 0..(Len(hay) - Len(needle)) :
        \A j \in 1..Len(needle) : hay[off + j] = needle[j]

(* ---- process_files_chunk ---- *)
\* {k: [] for k in keywords}
EmptyResults(kws) == [k \in Range(kws) |-> <<>>]

\* The value of a local that is not bound yet.
NoResults == [k \in {} |-> <<>>]

\* for keyword in keywords: if keyword.lower() in content: append
RECURSIVE ScanKeywords(_, _, _, _, _)
ScanKeywords(local_results, file_path, content, kws, i) ==
    IF i > Len(kws) THEN local_results
    ELSE LET keyword == kws[i]
             next == IF Contains(content, Lower(keyword))
                     THEN [local_results EXCEPT ![keyword] = Append(@, file_path)]
                     ELSE local_results
         IN ScanKeywords(next, file_path, content, kws, i + 1)

\* One iteration of `for file_path in file_chunk`: open, read, lower, test.
\* A file that cannot be opened raises inside the try; the handler prints
\* and the loop goes on with local_results untouched.
ScanFile(local_results, file_path, kws) ==
    IF file_path \notin Readable THEN local_results
    ELSE ScanKeywords(local_results, file_path, Lower(Content[file_path]), kws, 1)

\* The index of the loop after the file at index i of the chunk.
AfterFileAbort(file_chunk, i) ==
    IF file_chunk[i] \notin Readable THEN Len(file_chunk) + 1 ELSE i + 1

AfterFile(file_chunk, i) == i + 1

RECURSIVE ScanFrom(_, _, _, _)
ScanFrom(local_results, file_chunk, kws, i) ==
    IF i > Len(file_chunk) THEN local_results
    ELSE ScanFrom(ScanFile(local_results, file_chunk[i], kws), file_chunk, kws,
                  AfterFile(file_chunk, i))

process_files_chunk(file_chunk, kws) ==
    ScanFrom(EmptyResults(kws), file_chunk, kws, 1)

(* ---- merge_results ---- *)
\* final_results[keyword].extend(files) for every partial result, in order
RECURSIVE ExtendAll(_, _, _)
ExtendAll(final, partials, i) ==
    IF i > Len(partials) THEN final
    ELSE ExtendAll([k \in DOMAIN final |->
                       IF k \in DOMAIN partials[i] THEN final[k] \o partials[i][k]
                       ELSE final[k]],
                   partials, i + 1)

\* sorted(S) for a set of file identifiers
RECURSIVE SortedDescending(_)
SortedDescending(S) ==
    IF S = {} THEN <<>>
    ELSE LET m == CHOOSE x \in S : \A y \in S : y <= x
         IN <<m>> \o SortedDescending(S \ {m})

RECURSIVE Sorted(_)
Sorted(S) ==
    IF S = {} THEN <<>>
    ELSE LET m == CHOOSE x \in S : \A y \in S : x <= y
         IN <<m>> \o Sorted(S \ {m})

\* sorted(list(set(files)))
SortedSetKeepsOrder(files) == files

RECURSIVE SortedSetFirstSeen(_)
SortedSetFirstSeen(files) ==
    IF files = <<>> THEN <<>>
    ELSE LET first == Head(files)
         IN <<first>> \o SelectSeq(SortedSetFirstSeen(Tail(files)), LAMBDA x : x # first)

SortedSet(files) == Sorted(Range(files))

merge_resultsMatchedOnly(partials, kws) ==
    LET final == ExtendAll(EmptyResults(kws), partials, 1)
    IN [k \in {x \in DOMAIN final : final[x] # <<>>} |-> SortedSet(final[k])]

merge_results(partials, kws) ==
    LET final == ExtendAll(EmptyResults(kws), partials, 1)
    IN [k \in DOMAIN final |-> SortedSet(final[k])]

(* ---- chunking: file_list[i::num_workers] ---- *)
\* s[start::step] with a 0-based start and step > 0
SliceContiguous(s, start, step) ==
    LET size == Len(s) \div step
    IN [j \in 1..size |-> s[start * size + j]]

SliceBlocks(s, start, step) ==
    LET size == (Len(s) + step - 1) \div step
        first == start * size
        cnt == IF first >= Len(s) THEN 0 ELSE Min(size, Len(s) - first)
    IN [j \in 1..cnt |-> s[first + j]]

Slice(s, start, step) ==
    LET cnt == IF start >= Len(s) THEN 0 ELSE ((Len(s) - start - 1) \div step) + 1
    IN [j \in 1..cnt |-> s[start + (j - 1) * step + 1]]

\* [file_list[i::n] for i in range(n)]; range(n) is empty for n <= 0
Chunks(fl, n) ==
    IF n <= 0 THEN <<>> ELSE [i \in 1..n |-> Slice(fl, i - 1, n)]

(* ---- the queue: queue.Queue or multiprocessing.Queue ---- *)
\* Units one pickled PartialResult takes in the pipe of a multiprocessing.Queue:
\* one for the frame and one for every file entry it carries.
RECURSIVE Entries(_, _)
Entries(res, keys) ==
    IF keys = {} THEN 0
    ELSE LET k == CHOOSE x \in keys : TRUE
         IN Len(res[k]) + Entries(res, keys \ {k})

Size(res) == 1 + Entries(res, DOMAIN res)

RECURSIVE SizeAll(_, _)
SizeAll(q, i) == IF i > Len(q) THEN 0 ELSE Size(q[i]) + SizeAll(q, i + 1)

VARIABLES
    file_list,        \* the list of files the caller hands to every run
    keywords,         \* the keyword list the caller hands to every run
    threading_results,\* main: the result kept from the first of two runs, with its arguments
    num_workers,      \* run_analysis argument
    mode,             \* run_analysis argument
    pc,               \* where run_analysis is
    sink,             \* the queue class instantiated for this run, "none" before
    chunks,           \* run_analysis local
    started,          \* len(workers): workers created and started so far
    joined,           \* workers the join loop has passed
    wpc,              \* per worker: where generic_worker is
    widx,             \* per worker: index of the next file of its chunk
    local_results,    \* per worker: local_results of process_files_chunk
    put_count,        \* per worker: number of results_queue.put calls made
    results_queue,    \* items a get() can take
    wlock,            \* multiprocessing.Queue: worker whose feeder holds the write lock, 0 if free
    wrote,            \* multiprocessing.Queue: units of its item the lock holder has written
    partial_results,  \* run_analysis local
    final_results     \* run_analysis return value

vars == << file_list, keywords, threading_results, num_workers, mode, pc, sink, chunks,
           started, joined, wpc, widx, local_results, put_count, results_queue, wlock,
           wrote, partial_results, final_results >>

inputs == << file_list, keywords >>
args == << num_workers, mode >>
workerVars == << wpc, widx, local_results, put_count >>
pipeVars == << wlock, wrote >>

\* the workers of this run, once the list `workers` exists
Workers == DOMAIN wpc

\* put() of one item at the tail of the queue
EnqueueLossy(q, item) == IF Len(q) >= 1 THEN <<item>> ELSE Append(q, item)

Enqueue(q, item) == Append(q, item)

\* results_queue.empty()
EmptyEarly(q) == IF sink = "multiprocessing.Queue" THEN Len(q) <= 1 ELSE q = <<>>

Empty(q) == q = <<>>

\* units in the pipe: complete items not yet read plus the part of the item being written
PipeUsed == SizeAll(results_queue, 1) + wrote

\* a thread or process that has ended, normally or not: join() returns for it
Terminated(w) == wpc[w] \in {"done", "crashed"}

Init ==
    /\ file_list \in SeqsUpTo(Files, MaxFiles)
    /\ keywords \in KeywordLists
    /\ threading_results = <<>>
    /\ num_workers = 0
    /\ mode = "threading"
    /\ pc = "idle"
    /\ sink = "none"
    /\ chunks = <<>>
    /\ started = 0
    /\ joined = 0
    /\ wpc = <<>>
    /\ widx = <<>>
    /\ local_results = <<>>
    /\ put_count = <<>>
    /\ results_queue = <<>>
    /\ wlock = 0
    /\ wrote = 0
    /\ partial_results = <<>>
    /\ final_results = NoResults

(* ---- run_analysis ---- *)
\* Entry of run_analysis(file_list, keywords, n, m): every local starts unbound.
Enter(n, m) ==
    /\ num_workers' = n
    /\ mode' = m
    /\ pc' = "select"
    /\ sink' = "none"
    /\ chunks' = <<>>
    /\ started' = 0
    /\ joined' = 0
    /\ wpc' = <<>>
    /\ widx' = <<>>
    /\ local_results' = <<>>
    /\ put_count' = <<>>
    /\ results_queue' = <<>>
    /\ wlock' = 0
    /\ wrote' = 0
    /\ partial_results' = <<>>
    /\ final_results' = NoResults
    /\ UNCHANGED inputs

\* A caller calls run_analysis, any number of times, one call after the other.
Call(n, m) ==
    /\ pc \in {"idle", "returned", "raised"}
    /\ Enter(n, m)
    /\ UNCHANGED threading_results

\* if mode == 'threading' ... elif mode == 'multiprocessing' ... else raise ValueError
KnownModeAny(m) == TRUE

KnownMode(m) == m \in {"threading", "multiprocessing"}

SelectMode ==
    /\ pc = "select"
    /\ pc' = IF KnownMode(mode) THEN "partition" ELSE "raised"
    /\ UNCHANGED << inputs, threading_results, args, sink, chunks, started, joined,
                    workerVars, results_queue, pipeVars, partial_results, final_results >>

\* chunks = [file_list[i::num_workers] for i in range(num_workers)]
Partition ==
    /\ pc = "partition"
    /\ chunks' = Chunks(file_list, num_workers)
    /\ pc' = "mkqueue"
    /\ UNCHANGED << inputs, threading_results, args, sink, started, joined, workerVars,
                    results_queue, pipeVars, partial_results, final_results >>

\* results_queue = QueueClass(); workers = []
CreateQueue ==
    /\ pc = "mkqueue"
    /\ sink' = IF mode = "threading" THEN "queue.Queue" ELSE "multiprocessing.Queue"
    /\ results_queue' = <<>>
    /\ started' = 0
    /\ wpc' = [w \in 1..Len(chunks) |-> "new"]
    /\ widx' = [w \in 1..Len(chunks) |-> 1]
    /\ local_results' = [w \in 1..Len(chunks) |-> NoResults]
    /\ put_count' = [w \in 1..Len(chunks) |-> 0]
    /\ pc' = IF Len(chunks) = 0 THEN "join" ELSE "start"
    /\ UNCHANGED << inputs, threading_results, args, chunks, joined, pipeVars,
                    partial_results, final_results >>

\* for chunk in chunks: worker = WorkerClass(...); workers.append(worker); worker.start()
StartWorker ==
    /\ pc = "start"
    /\ started < Len(chunks)
    /\ started' = started + 1
    /\ wpc' = [wpc EXCEPT ![started + 1] = "begin"]
    /\ pc' = IF started + 1 = Len(chunks) THEN "join" ELSE "start"
    /\ UNCHANGED << inputs, threading_results, args, sink, chunks, joined, widx,
                    local_results, put_count, results_queue, pipeVars, partial_results,
                    final_results >>

\* for worker in workers: worker.join()   -- the loop ends after the last worker
JoinLoopEndsEarly(j) == j >= Min(1, started)

JoinLoopEnds(j) == j >= started

Join ==
    /\ pc = "join"
    /\ IF JoinLoopEnds(joined)
       THEN /\ pc' = "drain"
            /\ UNCHANGED joined
       ELSE /\ Terminated(joined + 1)
            /\ joined' = joined + 1
            /\ UNCHANGED pc
    /\ UNCHANGED << inputs, threading_results, args, sink, chunks, started, workerVars,
                    results_queue, pipeVars, partial_results, final_results >>

\* while not results_queue.empty(): partial_results.append(results_queue.get())
Drain ==
    /\ pc = "drain"
    /\ IF Empty(results_queue)
       THEN /\ pc' = "merge"
            /\ UNCHANGED << results_queue, partial_results >>
       ELSE /\ partial_results' = Append(partial_results, Head(results_queue))
            /\ results_queue' = Tail(results_queue)
            /\ UNCHANGED pc
    /\ UNCHANGED << inputs, threading_results, args, sink, chunks, started, joined,
                    workerVars, pipeVars, final_results >>

\* final_results = merge_results(partial_results, keywords); return final_results
Merge ==
    /\ pc = "merge"
    /\ final_results' = merge_results(partial_results, keywords)
    /\ pc' = "returned"
    /\ UNCHANGED << inputs, threading_results, args, sink, chunks, started, joined,
                    workerVars, results_queue, pipeVars, partial_results >>

(* ---- generic_worker ---- *)
\* local_results = {k: [] for k in keywords}
WorkerBegin(w) ==
    /\ wpc[w] = "begin"
    /\ local_results' = [local_results EXCEPT ![w] = EmptyResults(keywords)]
    /\ wpc' = [wpc EXCEPT ![w] = "scan"]
    /\ UNCHANGED << inputs, threading_results, args, pc, sink, chunks, started, joined,
                    widx, put_count, results_queue, pipeVars, partial_results,
                    final_results >>

\* one iteration of the loop over the chunk
WorkerScanShared(w) ==
    /\ wpc[w] = "scan"
    /\ widx[w] <= Len(chunks[w])
    /\ local_results' = [v \in Workers |->
                            IF wpc[v] = "scan"
                            THEN ScanFile(local_results[v], chunks[w][widx[w]], keywords)
                            ELSE local_results[v]]
    /\ widx' = [widx EXCEPT ![w] = AfterFile(chunks[w], @)]
    /\ UNCHANGED << inputs, threading_results, args, pc, sink, chunks, started, joined,
                    wpc, put_count, results_queue, pipeVars, partial_results,
                    final_results >>

WorkerScan(w) ==
    /\ wpc[w] = "scan"
    /\ widx[w] <= Len(chunks[w])
    /\ local_results' = [local_results EXCEPT
                            ![w] = ScanFile(@, chunks[w][widx[w]], keywords)]
    /\ widx' = [widx EXCEPT ![w] = AfterFile(chunks[w], @)]
    /\ UNCHANGED << inputs, threading_results, args, pc, sink, chunks, started, joined,
                    wpc, put_count, results_queue, pipeVars, partial_results,
                    final_results >>

\* the loop over the chunk is exhausted: process_files_chunk returns
ChunkDoneEarly(w) == widx[w] > Min(1, Len(chunks[w]))

ChunkDone(w) == widx[w] > Len(chunks[w])

\* results_queue.put(result).  queue.Queue appends under its mutex and the thread
\* ends; multiprocessing.Queue hands the item to the feeder thread of the process,
\* and the process ends only when the feeder has written the item into the pipe.
WorkerPut(w) ==
    /\ wpc[w] = "scan"
    /\ ChunkDone(w)
    /\ put_count' = [put_count EXCEPT ![w] = @ + 1]
    /\ IF sink = "queue.Queue"
       THEN /\ results_queue' = Enqueue(results_queue, local_results[w])
            /\ wpc' = [wpc EXCEPT ![w] = "done"]
       ELSE /\ wpc' = [wpc EXCEPT ![w] = "flush"]
            /\ UNCHANGED results_queue
    /\ UNCHANGED << inputs, threading_results, args, pc, sink, chunks, started, joined,
                    widx, local_results, pipeVars, partial_results, final_results >>

\* The feeder thread of a process: takes the write lock and writes the item;
\* the write blocks while the pipe is full.
WorkerFlush(w) ==
    /\ wpc[w] = "flush"
    /\ wlock \in {0, w}
    /\ PipeUsed < PipeCapacity
    /\ LET need == Size(local_results[w]) - wrote
           n == Min(PipeCapacity - PipeUsed, need)
       IN IF n = need
          THEN /\ results_queue' = Enqueue(results_queue, local_results[w])
               /\ wlock' = 0
               /\ wrote' = 0
               /\ wpc' = [wpc EXCEPT ![w] = "done"]
          ELSE /\ wlock' = w
               /\ wrote' = wrote + n
               /\ UNCHANGED << results_queue, wpc >>
    /\ UNCHANGED << inputs, threading_results, args, pc, sink, chunks, started, joined,
                    widx, local_results, put_count, partial_results, final_results >>

\* An execution unit that dies of an unhandled fault before it publishes.
WorkerCrash(w) ==
    /\ wpc[w] \in {"begin", "scan"}
    /\ wpc' = [wpc EXCEPT ![w] = "crashed"]
    /\ UNCHANGED << inputs, threading_results, args, pc, sink, chunks, started, joined,
                    widx, local_results, put_count, results_queue, pipeVars,
                    partial_results, final_results >>

WorkerCounts == (0 - 1)..MaxWorkers

\* the steps of one run of run_analysis and of its workers
Run ==
    \/ SelectMode
    \/ Partition
    \/ CreateQueue
    \/ StartWorker
    \/ Join
    \/ Drain
    \/ Merge
    \/ \E w \in Workers : WorkerBegin(w)
    \/ \E w \in Workers : WorkerScan(w)
    \/ \E w \in Workers : WorkerPut(w)
    \/ \E w \in Workers : WorkerFlush(w)

Next ==
    \/ \E n \in WorkerCounts, m \in Modes : Call(n, m)
    \/ Run

Spec == Init /\ [][Next]_vars

\* The same program in an environment where execution units can die.
NextCrash ==
    \/ Next
    \/ \E w \in Workers : WorkerCrash(w)

SpecCrash == Init /\ [][NextCrash]_vars

(* ---- scheduling ---- *)
\* The steps of the thread that runs run_analysis, and the steps of worker w.
Engine ==
    \/ SelectMode
    \/ Partition
    \/ CreateQueue
    \/ StartWorker
    \/ Join
    \/ Drain
    \/ Merge

WorkerNext(w) ==
    /\ w \in Workers
    /\ \/ WorkerBegin(w)
       \/ WorkerScan(w)
       \/ WorkerPut(w)
       \/ WorkerFlush(w)

\* The scheduler lets every thread and process that can take a step take one
\* eventually; the caller is free to stop calling.
FairSpec ==
    /\ Init
    /\ [][Next]_vars
    /\ WF_vars(Engine)
    /\ \A w \in 1..MaxWorkers : WF_vars(WorkerNext(w))

(* ---- main: the same inputs run twice and the results compared ---- *)
\* The two calls of main, for any file list, keyword list and positive worker count
\* (main itself passes NUM_WORKERS and skips the calls when file_list is empty).
\* threading_results = run_analysis(file_list, KEYWORDS, NUM_WORKERS, 'threading')
MainFirst(n) ==
    /\ pc = "idle"
    /\ n > 0
    /\ Enter(n, "threading")
    /\ UNCHANGED threading_results

\* processing_results = run_analysis(file_list, KEYWORDS, NUM_WORKERS, 'multiprocessing')
MainSecond ==
    /\ pc = "returned"
    /\ threading_results = <<>>
    /\ threading_results' = << [num_workers |-> num_workers, mode |-> mode,
                                results |-> final_results] >>
    /\ Enter(num_workers, "multiprocessing")

NextMain ==
    \/ \E n \in WorkerCounts : MainFirst(n)
    \/ MainSecond
    \/ Run

SpecMain == Init /\ [][NextMain]_vars

\* A caller that runs once with one worker and then again with any number of workers.
SingleFirst(m) ==
    /\ pc = "idle"
    /\ KnownMode(m)
    /\ Enter(1, m)
    /\ UNCHANGED threading_results

AgainWith(n) ==
    /\ pc = "returned"
    /\ threading_results = <<>>
    /\ n > 0
    /\ threading_results' = << [num_workers |-> num_workers, mode |-> mode,
                                results |-> final_results] >>
    /\ Enter(n, mode)

NextCounts ==
    \/ \E m \in Modes : SingleFirst(m)
    \/ \E n \in WorkerCounts : AgainWith(n)
    \/ Run

SpecCounts == Init /\ [][NextCounts]_vars

(* ---- merge_results called on its own ---- *)
\* The lists one PartialResult may hold for a keyword: in any order, with repeats.
PartialLists == { <<>>, <<1>>, <<2>>, <<2, 1>>, <<1, 1>> }

\* Every PartialResult for a keyword list: one list for each keyword.
PartialResultsFor(kws) == [Range(kws) -> PartialLists]

\* merge_results(partial_results, keywords) about to run on any collection
InitMerge ==
    /\ keywords \in KeywordLists
    /\ partial_results \in SeqsUpTo(PartialResultsFor(keywords), MaxWorkers)
    /\ file_list = <<>>
    /\ threading_results = <<>>
    /\ num_workers = 0
    /\ mode = "threading"
    /\ pc = "merge"
    /\ sink = "none"
    /\ chunks = <<>>
    /\ started = 0
    /\ joined = 0
    /\ wpc = <<>>
    /\ widx = <<>>
    /\ local_results = <<>>
    /\ put_count = <<>>
    /\ results_queue = <<>>
    /\ wlock = 0
    /\ wrote = 0
    /\ final_results = NoResults

NextMerge == Merge

SpecMerge == InitMerge /\ [][NextMerge]_vars

(* ======================================================================= *)
(* Properties                                                              *)
(* ======================================================================= *)

Count(x, s) == Cardinality({i \in DOMAIN s : s[i] = x})

RECURSIVE Flatten(_, _)
Flatten(ss, i) == IF i > Len(ss) THEN <<>> ELSE ss[i] \o Flatten(ss, i + 1)

StrictlyAscending(s) == \A i \in 1..(Len(s) - 1) : s[i] < s[i + 1]

\* Two characters that are the same letter, whatever their case.
SameLetter(c, d) ==
    \/ c = d
    \/ {c, d} \in { {"a", "A"}, {"b", "B"}, {"x", "X"} }

\* word occurs in text when case is ignored
OccursIgnoringCase(text, word) ==
    \E off \in 0..(Len(text) - Len(word)) :
        \A j \in 1..Len(word) : SameLetter(text[off + j], word[j])

\* the readable files among those of s whose content has keyword k, case ignored
Matching(s, k) ==
    {s[i] : i \in {j \in DOMAIN s :
                      /\ s[j] \in Readable
                      /\ OccursIgnoringCase(Content[s[j]], k)}}

Unreadable == Files \ Readable

\* C1: cross-model equivalence.  When the caller has run the search in mode
\* 'threading' and then, with the same file list, keywords and worker count, in
\* mode 'multiprocessing', the second run returns the CanonicalResult the first
\* returned, whatever the interleaving of the workers of either run was.
C1_CrossModelEquivalence ==
    ( /\ pc = "returned"
      /\ threading_results # <<>>
      /\ threading_results[1].mode = "threading"
      /\ mode = "multiprocessing"
      /\ threading_results[1].num_workers = num_workers )
    => final_results = threading_results[1].results

C1_Witness ==
    /\ pc = "returned"
    /\ threading_results # <<>>
    /\ threading_results[1].mode = "threading"
    /\ mode = "multiprocessing"
    /\ num_workers = 2
    /\ \E k \in DOMAIN final_results : Len(final_results[k]) = 2

\* C2: worker-crash detection.  run_analysis never reaches the merge or returns
\* when one of its workers ended without publishing, and what it merges is built
\* from exactly num_workers PartialResults.
C2_CrashDetected ==
    pc \in {"merge", "returned"}
    => /\ \A w \in Workers : wpc[w] # "crashed"
       /\ num_workers > 0 => Len(partial_results) = num_workers

\* C3: result correctness.  For num_workers > 0 the returned mapping has the
\* keywords, in their original casing, as its keys, and the list of each keyword
\* is strictly ascending (so duplicate-free) and holds exactly the readable files
\* of file_list whose content has the keyword when case is ignored.
C3_ResultCorrect ==
    (pc = "returned" /\ num_workers > 0)
    => /\ DOMAIN final_results = Range(keywords)
       /\ \A k \in Range(keywords) :
            /\ StrictlyAscending(final_results[k])
            /\ Range(final_results[k]) = Matching(file_list, k)

\* A has alpha, B has alpha and beta, C has neither, two workers.
C3_Witness ==
    /\ pc = "returned"
    /\ file_list = <<1, 2, 3>>
    /\ keywords = << <<"a">>, <<"B">> >>
    /\ num_workers = 2
    /\ final_results = (<<"a">> :> <<1, 2>>) @@ (<<"B">> :> <<2>>)

\* C4: invalid configuration is rejected.  With num_workers <= 0 or an empty
\* keyword list, no queue is created, no worker is started and nothing is returned.
C4_InvalidConfigRejected ==
    (pc # "idle" /\ (num_workers <= 0 \/ keywords = <<>>))
    => /\ sink = "none"
       /\ started = 0
       /\ pc # "returned"

\* C5: an unknown mode is rejected.  With a mode other than 'threading' and
\* 'multiprocessing' the call raises: it never partitions, never creates the
\* queue, never starts a worker, and nothing is published or returned.
C5_UnknownModeRejected ==
    (pc # "idle" /\ mode \notin {"threading", "multiprocessing"})
    => /\ pc \in {"select", "raised"}
       /\ chunks = <<>>
       /\ sink = "none"
       /\ started = 0
       /\ Workers = {}
       /\ results_queue = <<>>
       /\ partial_results = <<>>
       /\ final_results = NoResults

C5_Witness ==
    /\ pc = "raised"
    /\ mode = "asyncio"
    /\ num_workers = 2
    /\ file_list # <<>>
    /\ keywords # <<>>

\* C6: join before merge.  Whenever run_analysis is draining the queue, merging
\* or has returned, every one of its workers has terminated.
C6_JoinBeforeMerge ==
    pc \in {"drain", "merge", "returned"}
    => /\ started = Len(chunks)
       /\ \A w \in 1..Len(chunks) : wpc[w] \in {"done", "crashed"}

C6_Witness ==
    /\ pc = "drain"
    /\ num_workers = 2
    /\ Len(results_queue) = 2
    /\ \A w \in Workers : wpc[w] = "done"

\* C7: exactly-once publication and complete drain.  Without crashes no worker
\* puts twice, a terminated worker has put once, every put is in flight, in the
\* queue or drained (none is lost), and the merge receives exactly one
\* PartialResult per worker, the ones the workers computed, leaving the queue empty.
C7_ExactlyOncePublication ==
    /\ \A w \in Workers :
         /\ put_count[w] <= 1
         /\ wpc[w] \in {"flush", "done"} <=> put_count[w] = 1
    /\ Len(results_queue) + Len(partial_results)
         + Cardinality({w \in Workers : wpc[w] = "flush"})
       = Cardinality({w \in Workers : put_count[w] = 1})
    /\ pc \in {"merge", "returned"}
       => /\ Len(partial_results) = Len(chunks)
          /\ num_workers > 0 => Len(partial_results) = num_workers
          /\ results_queue = <<>>
          /\ \A r \in Range(local_results) \cup Range(partial_results) :
               Count(r, partial_results) = Count(r, local_results)

\* two processes, one of them with an empty chunk
C7_Witness ==
    /\ pc = "merge"
    /\ mode = "multiprocessing"
    /\ num_workers = 2
    /\ Len(partial_results) = 2
    /\ chunks[2] = <<>>
    /\ \E k \in DOMAIN local_results[1] : local_results[1][k] # <<>>

\* C8: partition property.  For num_workers > 0 there are num_workers chunks and
\* their concatenation is a permutation of file_list: every position of file_list
\* is in exactly one chunk.
C8_Partition ==
    (pc \in {"mkqueue", "start", "join", "drain", "merge", "returned"} /\ num_workers > 0)
    => /\ Len(chunks) = num_workers
       /\ Len(Flatten(chunks, 1)) = Len(file_list)
       /\ \A f \in Files : Count(f, Flatten(chunks, 1)) = Count(f, file_list)

C8_Witness ==
    /\ pc = "mkqueue"
    /\ num_workers = 2
    /\ Len(file_list) = 3
    /\ file_list[1] = file_list[3]
    /\ file_list[1] # file_list[2]

\* C9: a file that cannot be read is recoverable.  A worker never records an
\* unreadable file, the result it publishes has every readable matching file of
\* its chunk (those after an unreadable file too), a worker that ended has
\* published, and what run_analysis returns has the matches of the readable files
\* and no unreadable file.
C9_FileFailureRecoverable ==
    /\ \A w \in Workers : \A k \in DOMAIN local_results[w] :
         /\ Range(local_results[w][k]) \cap Unreadable = {}
         /\ wpc[w] \in {"flush", "done"}
            => Range(local_results[w][k]) = Matching(chunks[w], k)
    /\ \A w \in Workers : wpc[w] = "done" => put_count[w] = 1
    /\ (pc = "returned" /\ num_workers > 0)
       => \A k \in Range(keywords) :
            /\ Range(final_results[k]) \cap Unreadable = {}
            /\ Matching(file_list, k) \subseteq Range(final_results[k])

\* an unreadable file first, a readable matching file after it in the same chunk
C9_Witness ==
    /\ pc = "returned"
    /\ \E w \in Workers : \E i, j \in DOMAIN chunks[w] :
         /\ i < j
         /\ chunks[w][i] \in Unreadable
         /\ \E k \in DOMAIN final_results : chunks[w][j] \in Range(final_results[k])

\* C10: worker-count independence.  When the caller has run the search with one
\* worker and then again, in the same mode, with any num_workers > 0, the second
\* run returns the CanonicalResult of the first.
C10_WorkerCountIndependent ==
    ( /\ pc = "returned"
      /\ threading_results # <<>>
      /\ threading_results[1].num_workers = 1
      /\ threading_results[1].mode = mode
      /\ num_workers > 0 )
    => final_results = threading_results[1].results

\* more workers than files
C10_Witness ==
    /\ pc = "returned"
    /\ threading_results # <<>>
    /\ threading_results[1].num_workers = 1
    /\ num_workers = 2
    /\ Len(file_list) = 1
    /\ \E k \in DOMAIN final_results : final_results[k] # <<>>

\* the orders in which the items of s can be supplied
Orders(s) ==
    LET bijections == {g \in [DOMAIN s -> DOMAIN s] :
                          \A i, j \in DOMAIN s : g[i] = g[j] => i = j}
    IN {[i \in DOMAIN s |-> s[g[i]]] : g \in bijections}

\* C11: merge is order-independent.  What merge_results returned for a collection
\* of PartialResults is what it returns for the same PartialResults supplied in
\* any other order.
C11_MergeOrderIndependent ==
    pc = "returned"
    => \A p \in Orders(partial_results) :
         merge_results(p, keywords) = final_results

\* two partials whose lists for a keyword arrive in descending order
C11_Witness ==
    /\ pc = "returned"
    /\ sink = "none"
    /\ Len(partial_results) = 2
    /\ partial_results[1] # partial_results[2]
    /\ \E k \in DOMAIN final_results :
         /\ partial_results[1][k] = <<2>>
         /\ partial_results[2][k] = <<2, 1>>
         /\ final_results[k] = <<1, 2>>

\* C12: completeness.  Every keyword of the keyword list is a key of what
\* run_analysis returns and of what every worker accumulates; with an empty
\* file_list, or when the merge received no PartialResult at all, every keyword
\* is there with the empty list.
C12_Completeness ==
    /\ \A w \in Workers :
         wpc[w] \in {"scan", "flush", "done"}
         => \A k \in Range(keywords) : k \in DOMAIN local_results[w]
    /\ pc = "returned"
       => /\ \A k \in Range(keywords) : k \in DOMAIN final_results
          /\ (file_list = <<>> \/ partial_results = <<>>)
             => \A k \in Range(keywords) : final_results[k] = <<>>

\* empty file_list, keywords = [x]
C12_Witness ==
    /\ pc = "returned"
    /\ file_list = <<>>
    /\ keywords = << <<"a">> >>
    /\ num_workers = 2
    /\ Len(partial_results) = 2
    /\ final_results = (<<"a">> :> <<>>)

NoDuplicates(s) == \A i, j \in DOMAIN s : s[i] = s[j] => i = j

Ascending(s) == \A i, j \in DOMAIN s : i < j => s[i] <= s[j]

\* the files the PartialResults ps hold for keyword k
FilesOf(ps, k) == UNION {Range(ps[i][k]) : i \in DOMAIN ps}

\* C13: dedup/sort law.  For every keyword, the list in what run_analysis returns
\* has no file twice, is in ascending order and has the files the merged
\* PartialResults had for the keyword, also when file_list names a file more than
\* once or the keyword list names a keyword more than once.
C13_DedupSorted ==
    pc = "returned"
    => \A k \in DOMAIN final_results :
         /\ NoDuplicates(final_results[k])
         /\ Ascending(final_results[k])
         /\ Range(final_results[k]) = FilesOf(partial_results, k)

\* a file listed twice and a keyword listed twice: the worker recorded six entries
C13_Witness ==
    /\ pc = "returned"
    /\ file_list = <<2, 1, 2>>
    /\ keywords = << <<"a">>, <<"a">> >>
    /\ num_workers = 1
    /\ partial_results = << (<<"a">> :> <<2, 2, 1, 1, 2, 2>>) >>
    /\ final_results = (<<"a">> :> <<1, 2>>)

\* C14: termination.  Under fair scheduling every call with a known mode and
\* num_workers > 0 eventually returns, in both modes: no worker stays blocked
\* delivering its PartialResult while run_analysis waits in join.
C14_Terminates ==
    (pc = "select" /\ mode \in {"threading", "multiprocessing"} /\ num_workers > 0)
    ~> (pc = "returned")

\* C15: round-robin assignment.  For num_workers > 0 there are exactly
\* num_workers chunks, the file at (0-based) index i of file_list is in chunk
\* i mod num_workers at position i div num_workers (so each chunk keeps the order
\* of file_list), a chunk holds nothing else, and two chunks differ in size by at
\* most one.
C15_RoundRobin ==
    (pc \in {"mkqueue", "start", "join", "drain", "merge", "returned"} /\ num_workers > 0)
    => /\ Len(chunks) = num_workers
       /\ \A i \in 0..(Len(file_list) - 1) :
            LET chunk == chunks[(i % num_workers) + 1]
                pos == (i \div num_workers) + 1
            IN /\ pos <= Len(chunk)
               /\ chunk[pos] = file_list[i + 1]
       /\ \A w \in 1..num_workers :
            Len(chunks[w])
              = Cardinality({i \in 0..(Len(file_list) - 1) : i % num_workers = w - 1})
       /\ \A v, w \in 1..num_workers :
            Len(chunks[v]) - Len(chunks[w]) \in {0 - 1, 0, 1}

\* three files for two workers: the first and third go to the first worker
C15_Witness ==
    /\ pc = "mkqueue"
    /\ num_workers = 2
    /\ file_list = <<1, 2, 3>>
    /\ chunks = << <<1, 3>>, <<2>> >>

\* a step of some worker: the engine's position and worker list stay, worker state moves
WorkerStep ==
    /\ pc' = pc
    /\ started' = started
    /\ workerVars' # workerVars

\* worker v is left alone by the step
Untouched(v) ==
    /\ wpc'[v] = wpc[v]
    /\ widx'[v] = widx[v]
    /\ local_results'[v] = local_results[v]
    /\ put_count'[v] = put_count[v]

\* C16: worker isolation.  Every step of a worker w leaves the state of every
\* other worker, file_list, the keywords, the chunks and the engine's locals
\* unchanged; while w accumulates (before its put) it changes only its own
\* local_results and index and leaves the queue unchanged; the only shared state
\* a worker writes is the queue, by the one put of its own local_results.
C16_WorkerIsolation ==
    [][ WorkerStep
        => \E w \in Workers :
             /\ \A v \in Workers \ {w} : Untouched(v)
             /\ UNCHANGED << file_list, keywords, chunks, num_workers, mode, sink,
                             joined, partial_results, final_results, threading_results >>
             /\ (wpc[w] \in {"begin", "scan"} /\ wpc'[w] = "scan")
                => UNCHANGED << results_queue, wlock, wrote, put_count >>
             /\ results_queue' # results_queue
                => /\ results_queue' = Append(results_queue, local_results[w])
                   /\ local_results' = local_results
                   /\ put_count'[w] = 1
                   /\ wpc'[w] = "done"
      ]_vars

\* two workers accumulating side by side, each with its own matches
C16_Witness ==
    /\ Workers = {1, 2}
    /\ wpc[1] = "scan"
    /\ wpc[2] = "scan"
    /\ \E k \in DOMAIN local_results[1] :
         /\ local_results[1][k] = <<1>>
         /\ local_results[2][k] = <<2>>
    /\ results_queue = <<>>

\* the items that were published and not yet merged away: queued, then drained
Published == results_queue \o partial_results

\* what the worker of chunk w publishes when it has processed the whole chunk
WholeResult(w) == process_files_chunk(chunks[w], keywords)

\* C17: publication is of a complete result.  A worker has put only if it has
\* gone through every file of its chunk; every item in the queue or drained from
\* it has a key for every keyword and is the result of the whole of one chunk,
\* each chunk accounting for at most one item; and an item is never changed once
\* enqueued: the queue only grows at its tail or loses its head to the drain,
\* which hands the item over as it is.
C17_CompletePublication ==
    /\ [](/\ \A w \in Workers : put_count[w] >= 1 => widx[w] = Len(chunks[w]) + 1
          /\ \A i \in DOMAIN Published :
               /\ DOMAIN Published[i] = Range(keywords)
               /\ Count(Published[i], Published)
                    <= Cardinality({w \in Workers :
                                      /\ wpc[w] = "done"
                                      /\ WholeResult(w) = Published[i]}))
    /\ [][ \/ pc' = "select"
           \/ UNCHANGED << results_queue, partial_results >>
           \/ /\ Len(results_queue') = Len(results_queue) + 1
              /\ SubSeq(results_queue', 1, Len(results_queue)) = results_queue
              /\ UNCHANGED partial_results
           \/ /\ results_queue # <<>>
              /\ results_queue' = Tail(results_queue)
              /\ partial_results' = Append(partial_results, Head(results_queue))
         ]_vars

\* two items published, each the whole result of a chunk of two and of one file
C17_Witness ==
    /\ pc = "join"
    /\ Len(results_queue) = 2
    /\ Len(chunks) = 2
    /\ Len(chunks[1]) = 2
    /\ \E k \in Range(keywords) : Len(WholeResult(1)[k]) = 2
    /\ WholeResult(1) \in Range(results_queue)
    /\ WholeResult(2) \in Range(results_queue)
    /\ WholeResult(1) # WholeResult(2)

\* C18: single consumption.  Within one call, an item leaves the queue only by
\* the drain, which appends it once to partial_results; partial_results changes
\* in no other way; the merge runs only as the step from "merge" to "returned",
\* on partial_results as drained, and not again before the next call; and when
\* run_analysis has returned the queue is empty, nothing put is still in flight
\* and as many items were merged as were put.
C18_SingleConsumption ==
    /\ [](pc = "returned"
          => /\ results_queue = <<>>
             /\ \A w \in Workers : wpc[w] # "flush"
             /\ Len(partial_results) = Cardinality({w \in Workers : put_count[w] >= 1})
             /\ final_results = merge_results(partial_results, keywords))
    /\ [][ \/ pc' = "select"
           \/ /\ pc = "returned" => pc' = "returned"
              /\ final_results' # final_results => (pc = "merge" /\ pc' = "returned")
              /\ pc = "merge" => UNCHANGED << partial_results, results_queue >>
              /\ partial_results' # partial_results
                 => /\ pc = "drain"
                    /\ results_queue # <<>>
                    /\ partial_results' = Append(partial_results, Head(results_queue))
                    /\ results_queue' = Tail(results_queue)
              /\ Len(results_queue') < Len(results_queue)
                 => /\ pc = "drain"
                    /\ partial_results' = Append(partial_results, Head(results_queue))
         ]_vars

\* two items drained and merged, nothing left behind
C18_Witness ==
    /\ pc = "returned"
    /\ mode = "multiprocessing"
    /\ num_workers = 2
    /\ Len(partial_results) = 2
    /\ results_queue = <<>>
    /\ \E k \in DOMAIN final_results :
         /\ partial_results[1][k] # <<>>
         /\ partial_results[2][k] # <<>>
         /\ Len(final_results[k]) = 2

====
